---- MODULE Spec2Model ----
(***************************************************************************)
(* State-machine model of dropbot.py (funko-drop-bot): one run of main()   *)
(* loads state.json, walks the watched targets, normalises each listing,   *)
(* diffs every candidate against its persisted record, collects alerts,    *)
(* saves the state and sends the alerts.                                   *)
(*                                                                         *)
(* Text is modelled as sequences of tokens: a title is a sequence of       *)
(* words, a page body a sequence of text fragments, a page's HTML a set of *)
(* phrases.  Substring search (`k in t`) is containment of the keyword's   *)
(* token sequence.  Prices are kept in pence.  The record fields that      *)
(* main() writes and never reads back (id, title, source,                  *)
(* listing_price_text, last_price_text, last_checked) are left out of the  *)
(* modelled records.                                                       *)
(*                                                                         *)
(* Spec is the runs of main(); SpecDeliver is Spec over one catalogue with *)
(* raised POSTs noted; SpecNorm, SpecSend and SpecEvict run                *)
(* extract_listing_items, send_discord and the end-of-run cleanup on       *)
(* inputs of their own.                                                    *)
(***************************************************************************)
EXTENDS Integers, Sequences, FiniteSets, TLC

\* ------------------------------------------------------------------ bounds
MaxRuns == 2
MaxClock == 2
MaxAnchors == 3
MaxMessages == 3
Capacity == 2

\* --------------------------------------------------------------- constants
ULTRA_RARE_MAX == 2500
MAX_ITEMS == 8000
CHUNK_BUDGET == 1800

\* Python None: "None" where the value is a string, <<>> where it is a number or
\* a boolean (a present value v is then <<v>>).
None == "None"
Nil == <<>>
Some(v) == <<v>>

\* ------------------------------------------------------------ text helpers
\* Python `k in t` on normalised text: the keyword occurs contiguously.
Contains(t, k) ==
    \E i \in 1..(Len(t) - Len(k) + 1) : SubSeq(t, i, i + Len(k) - 1) = k

LowerWord(w) ==
    CASE w = "Naruto" -> "naruto"
      [] w = "Exclusive" -> "exclusive"
      [] w = "Pop" -> "pop"
      [] w = "Generic" -> "generic"
      [] w = "Figure" -> "figure"
      [] w = "Chase" -> "chase"
      [] w = "One" -> "one"
      [] w = "Piece" -> "piece"
      [] w = "LE" -> "le"
      [] w = "Limited" -> "limited"
      [] w = "Edition" -> "edition"
      [] OTHER -> w

\* norm(): strip, collapse whitespace (implicit in the tokenisation), lower.
norm(s) == [i \in 1..Len(s) |-> LowerWord(s[i])]

ANIME_KEYWORDS == { <<"anime">>, <<"manga">>, <<"one", "piece">>, <<"naruto">>,
                    <<"bleach">>, <<"pokemon">> }

HARD_KEYWORDS == { <<"exclusive">>, <<"limited">>, <<"chase">>, <<"convention">>,
                   <<"special", "edition">>, <<"flocked">> }

has_anime(title) == \E k \in ANIME_KEYWORDS : Contains(norm(title), k)
has_hard(title) == \E k \in HARD_KEYWORDS : Contains(norm(title), k)

\* The title check the comments of main() and the commented-out body describe.
TitleCheck(title) == has_anime(title) /\ has_hard(title)

\* The live definition: `return True`.
matches_anime_and_hard(title) == TRUE

\* ------------------------------------------------------------------- URLs
\* A URL is [host, path, query]; the path is its sequence of segments and
\* host "" marks a relative href.
FunkoUrl == [host |-> "funko.com", path |-> <<"gb", "p", "naruto-pop">>, query |-> ""]
HmvUrl == [host |-> "hmv.com", path |-> <<"store", "naruto-pop">>, query |-> ""]
Urls == {FunkoUrl, HmvUrl}

\* slice of sha256(url): one identity per URL string
stable_item_id(url) ==
    CASE url = FunkoUrl -> "id_funko"
      [] url = HmvUrl -> "id_hmv"
      [] OTHER -> "id_other"

Ids == {stable_item_id(u) : u \in Urls}

\* "funko.com" in product_url
is_funko_url(url) == url.host = "funko.com"

ALLOW_SEGMENTS == {"products", "product", "p", "store"}
DENY_SEGMENTS == {"search", "promotion", "collections", "category"}

\* "/p/" in u: the segment is followed by another one
looks_like_product_url(u) ==
    /\ \E i \in 1..(Len(u.path) - 1) : u.path[i] \in ALLOW_SEGMENTS
    /\ ~ \E i \in 1..Len(u.path) : u.path[i] \in DENY_SEGMENTS

\* ------------------------------------------------------------------ prices
\* CURRENCY_RE matches; "GBP" stands for the pound sign.
PriceTexts == {"GBP10.00", "GBP12.50"}

extract_price_text(text) ==
    IF \E i \in 1..Len(text) : text[i] \in PriceTexts
    THEN text[CHOOSE i \in 1..Len(text) :
                /\ text[i] \in PriceTexts
                /\ \A j \in 1..(i - 1) : text[j] \notin PriceTexts]
    ELSE None

price_to_float(price_text) ==
    CASE price_text = "GBP10.00" -> Some(1000)
      [] price_text = "GBP12.50" -> Some(1250)
      [] OTHER -> Nil
\* `a or b` on optional numbers: None and 0 are falsy
OrNum(a, b) == IF a = Nil \/ a = Some(0) THEN b ELSE a

\* `a or b` on optional strings: None and "" are falsy
OrText(a, b) == IF a = None \/ a = "" THEN b ELSE a

\* ------------------------------------------------------------ page signals
IN_STOCK_PHRASES == {"add to basket", "add to cart", "buy now", "pre-order", "in stock"}
OOS_PHRASES == {"out of stock", "sold out", "currently unavailable"}

\* html is the set of phrases the lower-cased page source contains
stock_status_from_page_html(html) ==
    IF html \cap OOS_PHRASES # {} THEN "oos"
    ELSE IF html \cap IN_STOCK_PHRASES # {} THEN "in_stock"
    ELSE "unknown"

EXCLUSIVE_SIGNALS == {"web exclusive", "funko exclusive", "limited edition",
                      "special edition", "exclusive", "limited"}

funko_is_exclusive_or_limited(html) == html \cap EXCLUSIVE_SIGNALS # {}

\* text.lower().replace(",", "") on one word
StripComma(w) == IF w = "2,000" THEN "2000" ELSE w

\* \d{3,6} and \d{2,6}
Digits3to6 == {"1500", "2000", "3000"}
Digits2to6 == Digits3to6 \cup {"99"}

IntOf(w) ==
    CASE w = "1500" -> 1500
      [] w = "2000" -> 2000
      [] w = "3000" -> 3000
      [] w = "99" -> 99
      [] OTHER -> 0

\* positions where pattern n of extract_le_piece_count matches, as the
\* position of the number
LePatternHits(t, n) ==
    CASE n = 1 -> {i \in 2..Len(t) : t[i - 1] = "le" /\ t[i] \in Digits3to6}
      [] n = 2 -> {i \in 3..Len(t) : /\ t[i - 2] = "limited"
                                     /\ t[i - 1] = "edition"
                                     /\ t[i] \in Digits3to6}
      [] n = 3 -> {i \in 1..(Len(t) - 1) : /\ t[i] \in Digits3to6
                                           /\ t[i + 1] \in {"pcs", "pieces"}}
      [] OTHER -> {i \in 2..Len(t) : t[i - 1] = "max" /\ t[i] \in Digits2to6}

FirstOf(S) == CHOOSE i \in S : \A j \in S : i <= j

extract_le_piece_count(text) ==
    LET t == [i \in 1..Len(text) |-> StripComma(LowerWord(text[i]))]
        pats == {n \in 1..4 : LePatternHits(t, n) # {}}
    IN  IF text = <<>> \/ pats = {} THEN Nil
        ELSE Some(IntOf(t[FirstOf(LePatternHits(t, FirstOf(pats)))]))

\* A product detail page: [html, text]; text is what inner_text("body") returns.
PgBasket == [html |-> {"add to basket"}, text |-> <<"GBP10.00">>]
PgSoldOut == [html |-> {"sold out", "add to basket", "limited edition"},
              text |-> <<"GBP10.00", "1500", "pcs">>]
PgLE2000 == [html |-> {"add to basket", "limited edition"},
             text |-> <<"GBP12.50", "Limited", "Edition", "2,000">>]
PgLE3000 == [html |-> {"web exclusive"}, text |-> <<"max", "99", "LE", "3000">>]

\* --------------------------------------------------------------- normalizer
NoHref == [host |-> "", path |-> <<>>, query |-> ""]

WordLen(w) ==
    CASE w = "Go" -> 2
      [] w = "Pop" -> 3
      [] w = "Chase" -> 5
      [] w = "Naruto" -> 6
      [] w = "Generic" -> 7
      [] w = "Figure" -> 6
      [] w = "Exclusive" -> 9
      [] OTHER -> 4

RECURSIVE CharLen(_)
CharLen(text) ==
    IF text = <<>> THEN 0
    ELSE WordLen(Head(text)) + (IF Len(text) > 1 THEN 1 ELSE 0) + CharLen(Tail(text))

\* urljoin(base_url, href) for an href starting with "/", then split("?")[0]
canonical_url(href, base) ==
    [host |-> IF href.host = "" THEN base ELSE href.host,
     path |-> href.path,
     query |-> ""]

\* An anchor is [href, text, parent_text, broken]; broken: reading it raises.
anchor_kept(a) ==
    /\ ~a.broken
    /\ a.href # NoHref
    /\ looks_like_product_url(canonical_url(a.href, ""))
    /\ a.text # <<>>
    /\ CharLen(a.text) >= 3

anchor_item(a, base) ==
    [title |-> a.text,
     url |-> canonical_url(a.href, base),
     listing_price_text |-> extract_price_text(a.parent_text)]

RECURSIVE collect_items(_, _)
collect_items(anchors, base) ==
    IF anchors = <<>> THEN <<>>
    ELSE IF anchor_kept(Head(anchors))
         THEN <<anchor_item(Head(anchors), base)>> \o collect_items(Tail(anchors), base)
         ELSE collect_items(Tail(anchors), base)

\* dedup[it["url"]] = it: a dict keeps the position of the first insertion of a
\* key and the value of the last assignment to it
dict_put(d, it) ==
    IF \E j \in 1..Len(d) : d[j].url = it.url
    THEN [j \in 1..Len(d) |-> IF d[j].url = it.url THEN it ELSE d[j]]
    ELSE Append(d, it)

RECURSIVE dedup_by_url(_)
dedup_by_url(items) ==
    IF items = <<>> THEN <<>>
    ELSE dict_put(dedup_by_url(SubSeq(items, 1, Len(items) - 1)), items[Len(items)])

extract_listing_items(anchors, base) == dedup_by_url(collect_items(anchors, base))
\* ------------------------------------------------------------------ targets
TARGETS == << [name |-> "Funko UK - New Releases", base |-> "funko.com"],
              [name |-> "HMV - Funko Pre-orders", base |-> "hmv.com"] >>

Anchor(href, text, parent) ==
    [href |-> href, text |-> text, parent_text |-> parent, broken |-> FALSE]

Rel(u, q) == [host |-> "", path |-> u.path, query |-> q]

T_Generic == <<"Generic", "Pop", "Figure">>
T_NarutoExcl == <<"Naruto", "Exclusive", "Pop">>
T_Naruto == <<"Naruto", "Pop">>
T_Chase == <<"Chase", "Pop">>

\* The catalogues the watched shops can carry: one product on both shops'
\* pages, or two products side by side.
Worlds == {"funko", "hmv", "both"}

\* What a listing page can show: the anchors page.locator("a[href]") returns.
ListingsOf(t, w) ==
    CASE w = "funko" /\ t = 1 ->
           { <<Anchor(Rel(FunkoUrl, ""), T_Naruto, <<>>)>>,
             <<Anchor(Rel(FunkoUrl, "?sort=new"), T_Generic, <<"GBP10.00">>)>> }
      [] w = "funko" /\ t = 2 ->
           { <<Anchor(FunkoUrl, T_Naruto, <<"GBP10.00">>)>> }
      [] w = "hmv" /\ t = 1 ->
           { <<Anchor(HmvUrl, T_NarutoExcl, <<>>)>> }
      [] w = "hmv" /\ t = 2 ->
           { <<Anchor(Rel(HmvUrl, ""), T_NarutoExcl, <<>>)>>,
             <<Anchor(Rel(HmvUrl, ""), T_Generic, <<>>)>>,
             <<Anchor(Rel(HmvUrl, ""), T_NarutoExcl, <<>>),
               Anchor(Rel(HmvUrl, "?ref=1"), T_Naruto, <<>>)>> }
      [] w = "both" /\ t = 1 ->
           { <<Anchor(Rel(FunkoUrl, ""), T_Naruto, <<>>),
               Anchor(HmvUrl, T_NarutoExcl, <<>>)>> }
      [] OTHER ->
           { <<Anchor(Rel(HmvUrl, ""), T_Generic, <<>>),
               Anchor(FunkoUrl, T_Naruto, <<>>)>> }

\* What a product page can show.
PagesOf(w) ==
    IF w = "both" THEN {PgLE2000}
    ELSE {PgBasket, PgSoldOut, PgLE2000, PgLE3000}

\* -------------------------------------------------------------------- state
VARIABLES
    world,         \* the catalogue of this behaviour
    pc,            \* where the process is: "idle", "target", "items", "finish", "send",
                   \* "sd_start", "sd_post" (in send_discord), "exit", "aborted"
    run,           \* number of runs started
    clock,         \* the last value int(time.time()) returned
    disk,          \* the content of state.json
    state,         \* main()'s state dict: [items, targets]
    tIdx,          \* index of the target being checked
    queue,         \* candidates of the current target not yet processed
    alerts_new, alerts_stock, alerts_price, alerts_ultra,
    sent,          \* the messages handed to send_discord in this run
    lastEv,        \* what the last processing of a candidate saw and emitted
    seen,          \* per identity: what was observed and alerted so far
    anchors,       \* normalizer input
    listing,       \* normalizer output
    file,          \* state.json on disk: "absent", "json" (a whole document) or "partial"
    webhook,       \* DISCORD_WEBHOOK is set
    messages,      \* send_discord's argument
    chunks,        \* send_discord's chunks list
    posted,        \* the POST requests send_discord made, in order
    raised         \* a POST of this or an earlier run raised (noted under SpecDeliver)

vars == <<world, pc, run, clock, disk, state, tIdx, queue, alerts_new, alerts_stock,
          alerts_price, alerts_ultra, sent, lastEv, seen, anchors, listing, file,
          webhook, messages, chunks, posted, raised>>

sendVars == <<webhook, messages, chunks, posted, raised>>

\* load_state() with no state file, and the setdefault calls. order is the key
\* order of the items dict (insertion order, kept by json.dump and json.load).
EmptyState == [items |-> <<>>, targets |-> <<>>, order |-> <<>>]

\* load_state() when it returns: f is "absent" or "json", d the document
load_state(f, d) == IF f = "absent" THEN EmptyState ELSE d

NoEv == [kind |-> "none"]

\* news: NewListing alerts so far; last: "fail" when the last pass for the
\* identity failed to read the product page; stock, excl: what the last
\* product page read showed; stock2: "in_stock" when the page read before
\* that one showed in stock; exclStreak: ExclusivityDetected alerts since a
\* page last showed no exclusivity signal; alertedLe: the LE count of the last
\* UltraRareSignal; vals: the values of the last product page read.
NeverSeen ==
    [news |-> 0, last |-> "none", stock |-> None, stock2 |-> None, excl |-> Nil,
     exclStreak |-> 0, alertedLe |-> Nil, vals |-> Nil]

Init ==
    /\ world \in Worlds
    /\ pc = "idle"
    /\ run = 0
    /\ clock = 1
    /\ disk = EmptyState
    /\ state = EmptyState
    /\ tIdx = 0
    /\ queue = <<>>
    /\ alerts_new = <<>>
    /\ alerts_stock = <<>>
    /\ alerts_price = <<>>
    /\ alerts_ultra = <<>>
    /\ sent = <<>>
    /\ lastEv = NoEv
    /\ seen = [i \in Ids |-> NeverSeen]
    /\ anchors = <<>>
    /\ listing = <<>>
    /\ file = "absent"
    /\ webhook = TRUE
    /\ messages = <<>>
    /\ chunks = <<>>
    /\ posted = <<>>
    /\ raised = FALSE
\* ------------------------------------------------------------- main(): rules
\* int(time.time()): a reading never below the previous one
TimeReadings(c) == {t \in {c, c + 1} : t <= MaxClock}

\* prev = state["items"].get(item_id, {}) and prev.get(field)
NoPrev ==
    [url |-> NoHref, first_seen |-> 0, last_seen |-> 0, last_price |-> Nil,
     last_stock |-> None, last_le_count |-> Nil, last_funko_exclusive |-> Nil]

\* prev that never finds a record
PrevOf_fresh(items, id) == NoPrev

PrevOf(items, id) == IF id \in DOMAIN items THEN items[id] ELSE NoPrev

\* should_open without the rarity-keyword / funko.com condition
should_open_anime_only(title, url) == has_anime(title)

should_open(title, url) ==
    has_anime(title) /\ (has_hard(title) \/ is_funko_url(url))

\* minimal_record that does not carry the product-level fields over
minimal_record_reset(known, prev, url, t1, t2) ==
    [url |-> url,
     first_seen |-> IF known THEN prev.first_seen ELSE t1,
     last_seen |-> t2,
     last_price |-> Nil,
     last_stock |-> None,
     last_le_count |-> Nil,
     last_funko_exclusive |-> Nil]

\* minimal_record that stamps first_seen on every observation
minimal_record_restamp(known, prev, url, t1, t2) ==
    [url |-> url,
     first_seen |-> t1,
     last_seen |-> t2,
     last_price |-> prev.last_price,
     last_stock |-> prev.last_stock,
     last_le_count |-> prev.last_le_count,
     last_funko_exclusive |-> prev.last_funko_exclusive]

\* the record written before the product page is opened
minimal_record(known, prev, url, t1, t2) ==
    [url |-> url,
     first_seen |-> IF known THEN prev.first_seen ELSE t1,
     last_seen |-> t2,
     last_price |-> prev.last_price,
     last_stock |-> prev.last_stock,
     last_le_count |-> prev.last_le_count,
     last_funko_exclusive |-> prev.last_funko_exclusive]

new_listing_alert(known, title) == ~known /\ matches_anime_and_hard(title)

qualifies(title, url, funko_excl) ==
    IF is_funko_url(url)
    THEN has_anime(title) /\ funko_excl = Some(TRUE)
    ELSE matches_anime_and_hard(title)

\* stock_flip that ignores the previous stock
stock_flip_any_prev(prev_stock, stock) == stock = "in_stock"

\* stock_flip that only fires for a stock never recorded before
stock_flip_first_only(prev_stock, stock) == prev_stock = None /\ stock = "in_stock"

stock_flip(prev_stock, stock) ==
    prev_stock \in {None, "oos", "unknown"} /\ stock = "in_stock"

price_changed(prev_price, price) ==
    price # Nil /\ prev_price # Nil /\ price # prev_price

\* price_direction with the comparison's operands swapped
price_direction_swapped(prev_price, price) ==
    IF prev_price[1] > price[1] THEN "increase" ELSE "decrease"

price_direction(prev_price, price) ==
    IF price[1] > prev_price[1] THEN "increase" ELSE "decrease"

exclusive_detected(title, url, funko_excl, prev_funko_excl) ==
    /\ is_funko_url(url)
    /\ has_anime(title)
    /\ funko_excl = Some(TRUE)
    /\ prev_funko_excl # Some(TRUE)

ultra_rare(le_count, prev_le) ==
    le_count # Nil /\ le_count[1] <= ULTRA_RARE_MAX /\ prev_le # le_count

Alert(kind, name, it, info) ==
    [kind |-> kind, src |-> name, title |-> it.title, url |-> it.url, info |-> info]

\* what the product page yields: the values main() computes from it
page_values(it, page) ==
    [stock |-> stock_status_from_page_html(page.html),
     price_text |-> OrText(extract_price_text(page.text),
                           extract_price_text(IF it.listing_price_text = None
                                              THEN <<>>
                                              ELSE <<it.listing_price_text>>)),
     funko_excl |-> IF is_funko_url(it.url)
                    THEN Some(funko_is_exclusive_or_limited(page.html))
                    ELSE Nil,
     le_count |-> OrNum(extract_le_piece_count(page.text),
                        extract_le_piece_count(it.title))]

\* detail_record that leaves the product-level fields as they were
detail_record_stale(rec, v) == rec

\* rec["last_stock"] = stock ... rec["last_le_count"] = le_count
detail_record(rec, v) ==
    [rec EXCEPT !.last_stock = v.stock,
                !.last_price = price_to_float(v.price_text),
                !.last_funko_exclusive = v.funko_excl,
                !.last_le_count = v.le_count]

\* a failed page read that wipes the product-level fields
failed_record_wiped(rec) ==
    [rec EXCEPT !.last_stock = None, !.last_price = Nil,
                !.last_funko_exclusive = Nil, !.last_le_count = Nil]

\* the record left behind when the product page raises
failed_record(rec) == rec

Opt(cond, a) == IF cond THEN <<a>> ELSE <<>>

\* the alerts of one product page, by list
detail_alerts(name, it, prev, v) ==
    LET price == price_to_float(v.price_text)
        q == qualifies(it.title, it.url, v.funko_excl)
    IN  [stock |-> Opt(q /\ stock_flip(prev.last_stock, v.stock),
                       Alert("InStockFlip", name, it, <<price>>)),
         price |-> Opt(q /\ price_changed(prev.last_price, price),
                       Alert("PriceChange", name, it,
                             IF price_changed(prev.last_price, price)
                             THEN <<price_direction(prev.last_price, price),
                                    prev.last_price, price>>
                             ELSE <<>>)),
         new |-> Opt(exclusive_detected(it.title, it.url, v.funko_excl,
                                        prev.last_funko_exclusive),
                     Alert("ExclusivityDetected", name, it, <<>>)),
         ultra |-> Opt(q /\ ultra_rare(v.le_count, prev.last_le_count),
                       Alert("UltraRareSignal", name, it,
                             <<v.le_count, v.stock = "in_stock">>))]
\* ----------------------------------------------------------- main(): steps
\* state["items"][item_id] = {...}: a new key goes to the end of the dict
with_record(st, id, rec) ==
    [st EXCEPT !.items = (id :> rec) @@ st.items,
               !.order = IF id \in DOMAIN st.items THEN @ ELSE Append(@, id)]

\* after the last candidate of a target: the next target, or the end of the loop
AfterTarget ==
    IF tIdx < Len(TARGETS)
    THEN pc' = "target" /\ tIdx' = tIdx + 1
    ELSE pc' = "finish" /\ tIdx' = tIdx

\* main() starts: load_state() returns, empty alert lists, first target
StartRun ==
    /\ pc = "idle"
    /\ run < MaxRuns
    /\ run' = run + 1
    /\ file # "partial"
    /\ state' = load_state(file, disk)
    /\ alerts_new' = <<>>
    /\ alerts_stock' = <<>>
    /\ alerts_price' = <<>>
    /\ alerts_ultra' = <<>>
    /\ sent' = <<>>
    /\ lastEv' = NoEv
    /\ tIdx' = 1
    /\ queue' = <<>>
    /\ pc' = "target"
    /\ UNCHANGED <<world, clock, disk, seen, anchors, listing, file, sendVars>>

\* main() starts with a state file that is not a whole JSON document
\* (empty or cut short): json.load raises, nothing catches it, the process ends
LoadStateRaises ==
    /\ pc = "idle"
    /\ run < MaxRuns
    /\ file = "partial"
    /\ run' = run + 1
    /\ pc' = "aborted"
    /\ UNCHANGED <<world, clock, disk, state, tIdx, queue, alerts_new, alerts_stock,
                   alerts_price, alerts_ultra, sent, lastEv, seen, anchors, listing,
                   file, sendVars>>

\* page.goto of the listing page raises: the target is skipped
LoadFail ==
    /\ pc = "target"
    /\ AfterTarget
    /\ UNCHANGED <<world, run, clock, disk, state, queue, alerts_new, alerts_stock,
                   alerts_price, alerts_ultra, sent, lastEv, seen, anchors, listing, file, sendVars>>

\* digest of the sorted "title|url|price" lines: one value per set of lines
digest_of(items) == {items[i] : i \in 1..Len(items)}

target_record(targets, name, items) ==
    [digest |-> digest_of(items),
     changed |-> name \in DOMAIN targets /\ targets[name].digest # digest_of(items)]

\* the listing page loads: extract the candidates, record the target's digest
LoadTarget ==
    /\ pc = "target"
    /\ \E raw \in ListingsOf(tIdx, world) :
         LET t == TARGETS[tIdx]
             items == extract_listing_items(raw, t.base)
         IN  /\ state' = [state EXCEPT !.targets =
                            (t.name :> target_record(state.targets, t.name, items))
                            @@ state.targets]
             /\ queue' = items
             /\ IF items = <<>> THEN AfterTarget ELSE pc' = "items" /\ tIdx' = tIdx
    /\ UNCHANGED <<world, run, clock, disk, alerts_new, alerts_stock, alerts_price,
                   alerts_ultra, sent, lastEv, seen, anchors, listing, file, sendVars>>

AfterItem ==
    /\ queue' = Tail(queue)
    /\ IF Tail(queue) = <<>> THEN AfterTarget ELSE pc' = "items" /\ tIdx' = tIdx

NoDetailAlerts == [stock |-> <<>>, price |-> <<>>, new |-> <<>>, ultra |-> <<>>]

\* The identities the passes of this run have processed so far, and those
\* whose product page they have read.
DoneBefore ==
    IF lastEv.kind \in {"skip", "fail", "ok"} THEN lastEv.done \cup {lastEv.id} ELSE {}

ReadBefore ==
    IF lastEv.kind \in {"skip", "fail", "ok"}
    THEN lastEv.read \cup (IF lastEv.kind = "ok" THEN {lastEv.id} ELSE {})
    ELSE {}

\* One pass of the candidate loop. outcome is "skip" (should_open is false),
\* "fail" (the product page raises) or "ok" (page is the product page).
ProcessItem(outcome, page) ==
    /\ queue # <<>>
    /\ LET it == Head(queue)
           name == TARGETS[tIdx].name
           id == stable_item_id(it.url)
           known == id \in DOMAIN state.items
           prev == PrevOf(state.items, id)
           open == should_open(it.title, it.url)
           v == page_values(it, page)
           nl == Opt(new_listing_alert(known, it.title),
                     Alert("NewListing", name, it, <<>>))
           da == IF outcome = "ok" THEN detail_alerts(name, it, prev, v)
                 ELSE NoDetailAlerts
       IN  /\ (outcome = "skip") <=> ~open
           /\ \E t1 \in TimeReadings(clock) : \E t2 \in TimeReadings(t1) :
                LET rec == minimal_record(known, prev, it.url, t1, t2)
                    final == CASE outcome = "ok" -> detail_record(rec, v)
                               [] outcome = "fail" -> failed_record(rec)
                               [] OTHER -> rec
                IN  /\ clock' = t2
                    /\ state' = with_record(state, id, final)
           /\ alerts_new' = alerts_new \o nl \o da.new
           /\ alerts_stock' = alerts_stock \o da.stock
           /\ alerts_price' = alerts_price \o da.price
           /\ alerts_ultra' = alerts_ultra \o da.ultra
           /\ lastEv' = [kind |-> outcome, id |-> id, it |-> it, src |-> name,
                         known |-> known, prev |-> prev, before |-> seen[id],
                         vals |-> v, nl |-> nl, da |-> da,
                         done |-> DoneBefore, read |-> ReadBefore]
           /\ seen' = [seen EXCEPT ![id] =
                 [news |-> @.news + Len(nl),
                  last |-> IF outcome = "fail" THEN "fail" ELSE "none",
                  stock |-> IF outcome = "ok" THEN v.stock ELSE @.stock,
                  stock2 |-> IF outcome = "ok"
                            THEN (IF @.stock = "in_stock" THEN "in_stock" ELSE None)
                            ELSE @.stock2,
                  excl |-> IF outcome = "ok" THEN v.funko_excl ELSE @.excl,
                  exclStreak |-> IF outcome = "ok" /\ v.funko_excl # Some(TRUE)
                                 THEN 0 ELSE @.exclStreak + Len(da.new),
                  alertedLe |-> IF da.ultra # <<>> THEN v.le_count ELSE @.alertedLe,
                  vals |-> IF outcome = "ok" THEN Some(v) ELSE @.vals]]
    /\ AfterItem
    /\ UNCHANGED <<world, run, disk, sent, anchors, listing, file, sendVars>>

\* should_open is false: no product page is opened
ProcessSkip ==
    /\ pc = "items"
    /\ ProcessItem("skip", PgBasket)

\* product_page.goto or content() raises
ProcessFail ==
    /\ pc = "items"
    /\ ProcessItem("fail", PgBasket)

\* the product page is read
ProcessDetail ==
    /\ pc = "items"
    /\ \E page \in PagesOf(world) : ProcessItem("ok", page)

\* sorted(state["items"].items(), key=last_seen, reverse=True): a stable sort,
\* so records with equal last_seen keep their dict order.
sorts_before(st, x, y) ==
    \/ st.items[x].last_seen > st.items[y].last_seen
    \/ /\ st.items[x].last_seen = st.items[y].last_seen
       /\ \E i, j \in 1..Len(st.order) : i < j /\ st.order[i] = x /\ st.order[j] = y

items_sorted(st) ==
    [i \in 1..Len(st.order) |->
        CHOOSE x \in DOMAIN st.items :
           Cardinality({y \in DOMAIN st.items : sorts_before(st, y, x)}) = i - 1]

\* the cleanup keeping the cap records with the oldest last_seen
evict_to_oldest(st, cap) ==
    IF Len(st.order) > cap
    THEN LET n == Len(st.order)
             keep == SubSeq(items_sorted(st), n - cap + 1, n)
         IN  [st EXCEPT !.items = [k \in {keep[i] : i \in 1..cap} |-> st.items[k]],
                        !.order = keep]
    ELSE st

\* the cleanup with capacity cap: keep the cap records with the newest last_seen
evict_to(st, cap) ==
    IF Len(st.order) > cap
    THEN LET keep == SubSeq(items_sorted(st), 1, cap)
         IN  [st EXCEPT !.items = [k \in {keep[i] : i \in 1..cap} |-> st.items[k]],
                        !.order = keep]
    ELSE st

evict(st) == evict_to(st, MAX_ITEMS)

save_state(st) == st

\* the end of main(): cleanup and save_state
Finish ==
    /\ pc = "finish"
    /\ state' = evict(state)
    /\ disk' = save_state(state')
    /\ file' = "json"
    /\ pc' = "send"
    /\ UNCHANGED <<world, run, clock, tIdx, queue, alerts_new, alerts_stock, alerts_price,
                   alerts_ultra, sent, lastEv, seen, anchors, listing, sendVars>>

\* outgoing with the new-listing alerts put first
\* The process dies inside save_state, after open(STATE_FILE, "w") emptied the
\* file and before json.dump wrote the whole document.
SaveCrash ==
    /\ pc = "finish"
    /\ state' = evict(state)
    /\ disk' = EmptyState
    /\ file' = "partial"
    /\ pc' = "aborted"
    /\ UNCHANGED <<world, run, clock, tIdx, queue, alerts_new, alerts_stock, alerts_price,
                   alerts_ultra, sent, lastEv, seen, anchors, listing, sendVars>>

outgoing_new_first == alerts_new \o alerts_ultra \o alerts_stock \o alerts_price

outgoing == alerts_ultra \o alerts_stock \o alerts_price \o alerts_new

\* ------------------------------------------------------------ send_discord
\* len() of the URL text: "https://", the host, "/" and a segment per path part
RECURSIVE PathLen(_)
PathLen(path) == IF path = <<>> THEN 0 ELSE 1 + Len(Head(path)) + PathLen(Tail(path))

UrlLen(u) == 8 + Len(u.host) + PathLen(u.path)

DigitsLen(n) ==
    IF n < 10 THEN 1 ELSE IF n < 100 THEN 2 ELSE IF n < 1000 THEN 3
    ELSE IF n < 10000 THEN 4 ELSE IF n < 100000 THEN 5 ELSE 6

\* len() of the f-string of each alert: the fixed text of its format plus the
\* name, title and URL and the optional last line
message_len(a) ==
    LET body == CharLen(a.title) + UrlLen(a.url)
    IN  CASE a.kind = "NewListing" -> 26 + Len(a.src) + body
          [] a.kind = "InStockFlip" ->
               24 + Len(a.src) + body + (IF a.info[1] # Nil THEN 12 ELSE 0)
          [] a.kind = "PriceChange" -> 29 + Len(a.src) + body + 24
          [] a.kind = "ExclusivityDetected" -> 44 + body
          [] OTHER ->
               39 + DigitsLen(a.info[1][1]) + Len(a.src) + body
                  + (IF a.info[2] THEN 10 ELSE 16)

\* A message as send_discord sees it: its place in the list, its length and
\* the whitespace it ends with (the in-stock alert without a price ends "\n").
message(i, a) ==
    [id |-> i, kind |-> a.kind, len |-> message_len(a),
     trail |-> IF a.kind = "InStockFlip" /\ a.info[1] = Nil THEN 1 ELSE 0]

\* len(chunk): every message in it is followed by "\n\n"
RECURSIVE chunk_len(_)
chunk_len(c) == IF c = <<>> THEN 0 ELSE Head(c).len + 2 + chunk_len(Tail(c))

\* the loop over messages that never starts a new chunk
RECURSIVE chunk_loop_one_chunk(_, _, _)
chunk_loop_one_chunk(ms, cs, c) ==
    IF ms = <<>> THEN [chunks |-> cs, chunk |-> c]
    ELSE chunk_loop_one_chunk(Tail(ms), cs, c \o <<Head(ms)>>)

\* the loop over messages: cs is the chunks list, c the chunk being filled
RECURSIVE chunk_loop(_, _, _)
chunk_loop(ms, cs, c) ==
    IF ms = <<>> THEN [chunks |-> cs, chunk |-> c]
    ELSE LET m == Head(ms)
             over == chunk_len(c) + m.len + 2 > CHUNK_BUDGET
         IN  chunk_loop(Tail(ms),
                        IF over THEN Append(cs, c) ELSE cs,
                        (IF over THEN <<>> ELSE c) \o <<m>>)

\* the chunks list after `if chunk.strip(): chunks.append(chunk)`
chunk_messages(ms) ==
    LET r == chunk_loop(ms, <<>>, <<>>)
    IN  IF r.chunk # <<>> THEN Append(r.chunks, r.chunk) ELSE r.chunks

\* len(c.strip()): the content of the POST
content_len(c) ==
    IF c = <<>> THEN 0 ELSE chunk_len(c) - 2 - c[Len(c)].trail

\* main() builds outgoing and, when it is not empty, calls send_discord.
\* DISCORD_WEBHOOK is read when the process starts and only used here.
Send ==
    /\ pc = "send"
    /\ sent' = outgoing
    /\ IF outgoing # <<>>
       THEN /\ messages' = [i \in 1..Len(outgoing) |-> message(i, outgoing[i])]
            /\ webhook' \in BOOLEAN
            /\ pc' = "sd_start"
       ELSE /\ pc' = "exit"
            /\ UNCHANGED <<messages, webhook>>
    /\ UNCHANGED <<world, run, clock, disk, state, tIdx, queue, alerts_new,
                   alerts_stock, alerts_price, alerts_ultra, lastEv, seen, anchors,
                   listing, file, chunks, posted, raised>>

SendUnchanged ==
    UNCHANGED <<world, run, clock, disk, state, tIdx, queue, alerts_new, alerts_stock,
                alerts_price, alerts_ultra, sent, lastEv, seen, anchors, listing,
                file, webhook, messages>>

\* `if not messages: return`
ReturnEmpty ==
    /\ pc = "sd_start"
    /\ messages = <<>>
    /\ pc' = "exit"
    /\ UNCHANGED <<chunks, posted, raised>>
    /\ SendUnchanged

\* `if not DISCORD_WEBHOOK`: the messages are printed, nothing is posted
NoWebhook ==
    /\ pc = "sd_start"
    /\ messages # <<>>
    /\ ~webhook
    /\ pc' = "exit"
    /\ UNCHANGED <<chunks, posted, raised>>
    /\ SendUnchanged

\* the chunks list is built
ChunkMessages ==
    /\ pc = "sd_start"
    /\ messages # <<>>
    /\ webhook
    /\ chunks' = chunk_messages(messages)
    /\ pc' = IF chunks' = <<>> THEN "exit" ELSE "sd_post"
    /\ UNCHANGED <<posted, raised>>
    /\ SendUnchanged

\* urlopen of the next chunk answers
Post ==
    /\ pc = "sd_post"
    /\ posted' = Append(posted, [chunk |-> Len(posted) + 1, ok |-> TRUE])
    /\ pc' = IF Len(posted') = Len(chunks) THEN "exit" ELSE "sd_post"
    /\ UNCHANGED <<chunks, raised>>
    /\ SendUnchanged

\* urlopen of the next chunk raises (URLError, HTTPError, timeout): nothing in
\* send_discord or main() catches it, the process ends with a traceback
PostRaise ==
    /\ pc = "sd_post"
    /\ posted' = Append(posted, [chunk |-> Len(posted) + 1, ok |-> FALSE])
    /\ pc' = "aborted"
    /\ UNCHANGED <<chunks, raised>>
    /\ SendUnchanged

\* PostRaise, with the failure noted
PostRaiseNoted ==
    /\ pc = "sd_post"
    /\ posted' = Append(posted, [chunk |-> Len(posted) + 1, ok |-> FALSE])
    /\ pc' = "aborted"
    /\ raised' = TRUE
    /\ UNCHANGED chunks
    /\ SendUnchanged

\* The process ends, main() having returned or not: its locals are gone.
Exit ==
    /\ pc \in {"exit", "aborted"}
    /\ pc' = "idle"
    /\ state' = EmptyState
    /\ tIdx' = 0
    /\ queue' = <<>>
    /\ alerts_new' = <<>>
    /\ alerts_stock' = <<>>
    /\ alerts_price' = <<>>
    /\ alerts_ultra' = <<>>
    /\ sent' = <<>>
    /\ lastEv' = NoEv
    /\ webhook' = TRUE
    /\ messages' = <<>>
    /\ chunks' = <<>>
    /\ posted' = <<>>
    /\ UNCHANGED <<world, run, clock, disk, seen, anchors, listing, file, raised>>

Next ==
    \/ StartRun
    \/ LoadStateRaises
    \/ LoadFail
    \/ LoadTarget
    \/ ProcessSkip
    \/ ProcessFail
    \/ ProcessDetail
    \/ Finish
    \/ SaveCrash
    \/ Send
    \/ NoWebhook
    \/ ChunkMessages
    \/ Post
    \/ PostRaise
    \/ Exit

Spec == Init /\ [][Next]_vars

\* ------------------------------------- runs with delivery failures noted
\* The runs of main() over the funko.com catalogue, a raised POST leaving
\* its mark in `raised`.
InitDeliver == Init /\ world = "funko"

NextDeliver ==
    \/ StartRun
    \/ LoadFail
    \/ LoadTarget
    \/ ProcessSkip
    \/ ProcessFail
    \/ ProcessDetail
    \/ Finish
    \/ Send
    \/ NoWebhook
    \/ ChunkMessages
    \/ Post
    \/ PostRaiseNoted
    \/ Exit

SpecDeliver == InitDeliver /\ [][NextDeliver]_vars

\* ---------------------------------------------- send_discord on its own
MessageLens == {600, 1196, 1799, 1801}

MessageLists ==
    UNION { { [i \in 1..n |-> [id |-> i, kind |-> "NewListing", len |-> f[i], trail |-> 0]]
              : f \in [1..n -> MessageLens] } : n \in 0..MaxMessages }

InitSend ==
    /\ world = "hmv"
    /\ pc = "sd_start"
    /\ run = 1
    /\ clock = 1
    /\ disk = EmptyState
    /\ state = EmptyState
    /\ tIdx = Len(TARGETS)
    /\ queue = <<>>
    /\ alerts_new = <<>>
    /\ alerts_stock = <<>>
    /\ alerts_price = <<>>
    /\ alerts_ultra = <<>>
    /\ sent = <<>>
    /\ lastEv = NoEv
    /\ seen = [i \in Ids |-> NeverSeen]
    /\ anchors = <<>>
    /\ listing = <<>>
    /\ file = "json"
    /\ webhook \in BOOLEAN
    /\ messages \in MessageLists
    /\ chunks = <<>>
    /\ posted = <<>>
    /\ raised = FALSE

NextSend ==
    \/ ReturnEmpty
    \/ NoWebhook
    \/ ChunkMessages
    \/ Post
    \/ PostRaise

SpecSend == InitSend /\ [][NextSend]_vars

\* ------------------------------------------------ the cleanup on its own
\* Runs of main() reduced to what the cleanup reads and writes: the records'
\* last_seen and the key order of the items dict.  The capacity is Capacity
\* in place of MAX_ITEMS, and four identities are on offer.
EvictKeys == {"k1", "k2", "k3", "k4"}

KeyUrl(k) == [host |-> "hmv.com", path |-> <<"store", k>>, query |-> ""]

InitEvict ==
    /\ world = "hmv"
    /\ pc = "ev_idle"
    /\ run = 0
    /\ clock = 1
    /\ disk = EmptyState
    /\ state = EmptyState
    /\ tIdx = 0
    /\ queue = <<>>
    /\ alerts_new = <<>>
    /\ alerts_stock = <<>>
    /\ alerts_price = <<>>
    /\ alerts_ultra = <<>>
    /\ sent = <<>>
    /\ lastEv = NoEv
    /\ seen = [i \in Ids |-> NeverSeen]
    /\ anchors = <<>>
    /\ listing = <<>>
    /\ file = "absent"
    /\ webhook = TRUE
    /\ messages = <<>>
    /\ chunks = <<>>
    /\ posted = <<>>
    /\ raised = FALSE

EvictUnchanged ==
    UNCHANGED <<world, tIdx, queue, alerts_new, alerts_stock, alerts_price, alerts_ultra,
                sent, seen, anchors, listing, sendVars>>

\* main() starts: load_state()
EvStart ==
    /\ pc = "ev_idle"
    /\ run < MaxRuns
    /\ run' = run + 1
    /\ state' = load_state(file, disk)
    /\ lastEv' = [kind |-> "loop", observed |-> {}]
    /\ pc' = "ev_items"
    /\ UNCHANGED <<clock, disk, file>>
    /\ EvictUnchanged

\* a pass of the candidate loop for an identity not yet met in this run: the
\* record is written with the two time readings
EvObserve ==
    /\ pc = "ev_items"
    /\ \E k \in EvictKeys \ lastEv.observed :
         \E t1 \in TimeReadings(clock) : \E t2 \in TimeReadings(t1) :
            /\ state' = with_record(state, k,
                           minimal_record(k \in DOMAIN state.items,
                                          PrevOf(state.items, k), KeyUrl(k), t1, t2))
            /\ clock' = t2
            /\ lastEv' = [lastEv EXCEPT !.observed = @ \cup {k}]
    /\ pc' = "ev_items"
    /\ UNCHANGED <<run, disk, file>>
    /\ EvictUnchanged

\* the cleanup and save_state
EvFinish ==
    /\ pc = "ev_items"
    /\ state' = evict_to(state, Capacity)
    /\ disk' = save_state(state')
    /\ file' = "json"
    /\ lastEv' = [kind |-> "evict", observed |-> lastEv.observed, before |-> state]
    /\ pc' = "ev_done"
    /\ UNCHANGED <<run, clock>>
    /\ EvictUnchanged

\* the process ends
EvExit ==
    /\ pc = "ev_done"
    /\ state' = EmptyState
    /\ lastEv' = NoEv
    /\ pc' = "ev_idle"
    /\ UNCHANGED <<run, clock, disk, file>>
    /\ EvictUnchanged

NextEvict ==
    \/ EvStart
    \/ EvObserve
    \/ EvFinish
    \/ EvExit

SpecEvict == InitEvict /\ [][NextEvict]_vars

\* ------------------------------------------- the normalizer on its own
SearchHref == [host |-> "", path |-> <<"search">>, query |-> "?q=funko+pop"]

RawAnchors ==
    { Anchor(Rel(HmvUrl, ""), T_NarutoExcl, <<"GBP10.00">>),
      Anchor(Rel(HmvUrl, "?ref=1"), T_Chase, <<"GBP12.50">>),
      Anchor(FunkoUrl, T_Naruto, <<>>),
      Anchor(Rel(HmvUrl, ""), <<"Go">>, <<>>),
      Anchor(SearchHref, T_Generic, <<>>),
      [Anchor(FunkoUrl, T_Generic, <<>>) EXCEPT !.broken = TRUE] }

AnchorLists == UNION {[1..n -> RawAnchors] : n \in 0..MaxAnchors}

InitNorm ==
    /\ world = "hmv"
    /\ pc = "norm"
    /\ run = 0
    /\ clock = 1
    /\ disk = EmptyState
    /\ state = EmptyState
    /\ tIdx \in 1..Len(TARGETS)
    /\ queue = <<>>
    /\ alerts_new = <<>>
    /\ alerts_stock = <<>>
    /\ alerts_price = <<>>
    /\ alerts_ultra = <<>>
    /\ sent = <<>>
    /\ lastEv = NoEv
    /\ seen = [i \in Ids |-> NeverSeen]
    /\ anchors \in AnchorLists
    /\ listing = <<>>
    /\ file = "absent"
    /\ webhook = TRUE
    /\ messages = <<>>
    /\ chunks = <<>>
    /\ posted = <<>>
    /\ raised = FALSE

\* items = extract_listing_items(page, base)
Normalize ==
    /\ pc = "norm"
    /\ listing' = extract_listing_items(anchors, TARGETS[tIdx].base)
    /\ pc' = "normed"
    /\ UNCHANGED <<world, run, clock, disk, state, tIdx, queue, alerts_new,
                   alerts_stock, alerts_price, alerts_ultra, sent, lastEv, seen,
                   anchors, file, sendVars>>

NextNorm == Normalize

SpecNorm == InitNorm /\ [][NextNorm]_vars
\* ============================================================== properties
\* The last pass of the candidate loop, as the properties speak of it.
Ev == lastEv.kind # "none"
EvOk == lastEv.kind = "ok"
EvTitle == lastEv.it.title
EvUrl == lastEv.it.url
EvNewPrice == price_to_float(lastEv.vals.price_text)
EvNoDetailAlert ==
    /\ lastEv.da.stock = <<>>
    /\ lastEv.da.price = <<>>
    /\ lastEv.da.new = <<>>
    /\ lastEv.da.ultra = <<>>

\* Section 4.3 of the specification: the asymmetric qualification rule.
AsymmetricRule(title, url, funko_excl) ==
    IF is_funko_url(url)
    THEN has_anime(title) /\ funko_excl = Some(TRUE)
    ELSE has_anime(title) /\ has_hard(title)

\* C1: a NewListing alert is emitted for a candidate if and only if its
\* identity had no record before this observation and its title has both a
\* thematic and a rarity keyword; and NewListing is emitted at most once per
\* identity.
C1_NewListingIffTitleCheck ==
    /\ Ev => ((lastEv.nl # <<>>) <=> (~lastEv.known /\ TitleCheck(EvTitle)))
    /\ \A id \in Ids : seen[id].news <= 1

\* C2: for a candidate of a source without page-level signals whose title has
\* no rarity keyword, the classifier verdict is false, no product page is
\* fetched and no alert of any kind is emitted.
C2_NoRarityKeywordNoAlert ==
    (Ev /\ ~is_funko_url(EvUrl) /\ ~has_hard(EvTitle)) =>
        /\ ~matches_anime_and_hard(EvTitle)
        /\ lastEv.kind = "skip"
        /\ lastEv.nl = <<>>
        /\ EvNoDetailAlert

\* C3: every InStockFlip, PriceChange and UltraRareSignal alert is for a
\* candidate that qualifies under the asymmetric rule.
C3_DetailAlertsQualify ==
    (Ev /\ (lastEv.da.stock # <<>> \/ lastEv.da.price # <<>> \/ lastEv.da.ultra # <<>>))
        => /\ EvOk
           /\ AsymmetricRule(EvTitle, EvUrl, lastEv.vals.funko_excl)

C3_Witness ==
    /\ EvOk
    /\ ~is_funko_url(EvUrl)
    /\ lastEv.da.stock # <<>>
    /\ lastEv.da.ultra # <<>>

\* C4: a product page that shows in_stock again, after the last page read for
\* the identity showed in_stock, emits no InStockFlip; an InStockFlip is only
\* emitted when the recorded stock was oos, unknown or absent and the page
\* shows in_stock.
C4_InStockFlipIdempotent ==
    Ev =>
      /\ (EvOk /\ lastEv.before.stock = "in_stock" /\ lastEv.vals.stock = "in_stock")
            => lastEv.da.stock = <<>>
      /\ lastEv.da.stock # <<>> =>
            /\ EvOk
            /\ lastEv.prev.last_stock \in {None, "oos", "unknown"}
            /\ lastEv.vals.stock = "in_stock"

C4_Witness ==
    /\ EvOk
    /\ AsymmetricRule(EvTitle, EvUrl, lastEv.vals.funko_excl)
    /\ lastEv.before.stock = "in_stock"
    /\ lastEv.before.last = "fail"
    /\ lastEv.vals.stock = "in_stock"
    /\ lastEv.da.stock = <<>>

\* C5: for a qualifying candidate whose product page is read: a page that
\* shows out of stock emits no InStockFlip; a page that shows in stock after
\* the last page read showed out of stock emits exactly one InStockFlip, also
\* when the page before that one showed in stock.
C5_FlipAfterOutOfStock ==
    (EvOk /\ AsymmetricRule(EvTitle, EvUrl, lastEv.vals.funko_excl)) =>
      /\ lastEv.vals.stock = "oos" => lastEv.da.stock = <<>>
      /\ (lastEv.before.stock = "oos" /\ lastEv.vals.stock = "in_stock")
            => Len(lastEv.da.stock) = 1
      /\ (lastEv.before.stock2 = "in_stock" /\ lastEv.before.stock = "oos"
            /\ lastEv.vals.stock = "in_stock")
            => Len(lastEv.da.stock) = 1

C5_Witness ==
    /\ EvOk
    /\ AsymmetricRule(EvTitle, EvUrl, lastEv.vals.funko_excl)
    /\ lastEv.before.stock2 = "in_stock"
    /\ lastEv.before.stock = "oos"
    /\ lastEv.vals.stock = "in_stock"
    /\ Len(lastEv.da.stock) = 1

\* C6: for a qualifying candidate whose product page is read, exactly one
\* PriceChange is emitted when the recorded price and the new price are both
\* known and differ, with direction increase exactly when the new price is
\* higher; otherwise no PriceChange is emitted.
C6_PriceChangeExactlyOnce ==
    Ev =>
      IF /\ EvOk
         /\ AsymmetricRule(EvTitle, EvUrl, lastEv.vals.funko_excl)
         /\ lastEv.prev.last_price # Nil
         /\ EvNewPrice # Nil
         /\ lastEv.prev.last_price # EvNewPrice
      THEN /\ Len(lastEv.da.price) = 1
           /\ lastEv.da.price[1].kind = "PriceChange"
           /\ lastEv.da.price[1].info[1] =
                (IF EvNewPrice[1] > lastEv.prev.last_price[1]
                 THEN "increase" ELSE "decrease")
      ELSE lastEv.da.price = <<>>

C6_Witness ==
    /\ EvOk
    /\ Len(lastEv.da.price) = 1
    /\ lastEv.da.price[1].info = <<"decrease", Some(1250), Some(1000)>>

\* C7: an UltraRareSignal is emitted only for a qualifying candidate whose
\* newly extracted LE count is known, at most ULTRA_RARE_MAX and different
\* from the count last alerted for the identity.
C7_UltraRareNotRepeated ==
    (Ev /\ lastEv.da.ultra # <<>>) =>
      /\ EvOk
      /\ AsymmetricRule(EvTitle, EvUrl, lastEv.vals.funko_excl)
      /\ lastEv.vals.le_count # Nil
      /\ lastEv.vals.le_count[1] <= ULTRA_RARE_MAX
      /\ lastEv.vals.le_count # lastEv.before.alertedLe

SeenInOrder(items) == \A id \in DOMAIN items : items[id].first_seen <= items[id].last_seen

FirstSeenKept(old, new) ==
    \A id \in (DOMAIN old) \cap (DOMAIN new) : new[id].first_seen = old[id].first_seen

C9_Lifecycle ==
    /\ SeenInOrder(state.items)
    /\ SeenInOrder(disk.items)
    /\ [][/\ SeenInOrder(state'.items)
          /\ SeenInOrder(disk'.items)
          /\ FirstSeenKept(state.items, state'.items)
          /\ FirstSeenKept(disk.items, disk'.items)
          /\ (pc = "idle" /\ pc' = "target") => state'.items = disk.items
          /\ (pc = "items" /\ lastEv' # lastEv) =>
                LET id == stable_item_id(Head(queue).url)
                IN  /\ id \in DOMAIN state'.items
                    /\ state'.items[id].last_seen = clock'
                    /\ clock' >= clock]_vars

C9_Witness ==
    /\ Ev
    /\ lastEv.known
    /\ run = 2
    /\ state.items[lastEv.id].first_seen < state.items[lastEv.id].last_seen
    /\ lastEv.prev.last_seen < state.items[lastEv.id].last_seen

\* C10: the output of extract_listing_items holds every canonical URL of the
\* kept anchors exactly once, with the title and listing price of the first
\* anchor that has this URL.
C10_FirstOccurrenceWins ==
    pc = "normed" =>
      LET kept == collect_items(anchors, TARGETS[tIdx].base)
      IN  /\ \A i \in 1..Len(kept) :
                Cardinality({j \in 1..Len(listing) : listing[j].url = kept[i].url}) = 1
          /\ \A j \in 1..Len(listing) :
                \E i \in 1..Len(kept) :
                   /\ listing[j] = kept[i]
                   /\ \A k \in 1..(i - 1) : kept[k].url # kept[i].url

\* The priority class of an alert: 1 for UltraRareSignal and InStockFlip, 2 for
\* PriceChange, 3 for NewListing and ExclusivityDetected.
AlertClass(kind) ==
    CASE kind \in {"UltraRareSignal", "InStockFlip"} -> 1
      [] kind = "PriceChange" -> 2
      [] OTHER -> 3

ClassOrdered(ms) ==
    \A i, j \in 1..Len(ms) : i < j => AlertClass(ms[i].kind) <= AlertClass(ms[j].kind)

RECURSIVE Flatten(_)
Flatten(cs) == IF cs = <<>> THEN <<>> ELSE Head(cs) \o Flatten(Tail(cs))

\* C11: in the outgoing sequence of every run all UltraRareSignal and
\* InStockFlip alerts come before all PriceChange alerts, which come before all
\* NewListing and ExclusivityDetected alerts, whatever the order in which they
\* were collected; the messages handed to send_discord are these alerts in this
\* order, the chunks hold them in this order, and the chunks are posted in order.
C11_PriorityOrder ==
    /\ ClassOrdered(outgoing)
    /\ messages # <<>> =>
          /\ Len(messages) = Len(outgoing)
          /\ \A i \in 1..Len(messages) :
                messages[i].id = i /\ messages[i].kind = outgoing[i].kind
    /\ chunks # <<>> =>
          /\ Flatten(chunks) = messages
          /\ ClassOrdered(Flatten(chunks))
    /\ \A i \in 1..Len(posted) : posted[i].chunk = i

C11_Witness ==
    /\ pc = "exit"
    /\ posted # <<>>
    /\ alerts_new # <<>>
    /\ alerts_price # <<>>
    /\ alerts_stock # <<>>
    /\ alerts_ultra # <<>>
    /\ lastEv.nl = <<>>
    /\ lastEv.da.price # <<>>

\* C12: for every non-empty list of messages the chunks send_discord builds
\* hold every message whole, exactly once and in the original order; the
\* content of no chunk is longer than CHUNK_BUDGET characters; and no chunk is
\* empty, also when a single message is as long as the budget or longer.
C12_ChunksWholeBoundedNonEmpty ==
    (messages # <<>> /\ pc \in {"sd_post", "exit", "aborted"} /\ webhook) =>
        /\ Flatten(chunks) = messages
        /\ \A i \in 1..Len(chunks) :
              /\ content_len(chunks[i]) <= CHUNK_BUDGET
              /\ chunks[i] # <<>>

\* The number of POST requests made for chunk i.
Attempts(i) == Cardinality({k \in 1..Len(posted) : posted[k].chunk = i})

\* C13: a POST that raises is not fatal: send_discord goes on, every chunk,
\* the failed one included, gets exactly one POST by the time the process
\* ends, and the process ends with main() having returned; no chunk ever gets
\* more than one POST.
C13_DeliveryFailureNotFatal ==
    /\ \A i \in 1..Len(chunks) : Attempts(i) <= 1
    /\ (\E k \in 1..Len(posted) : ~posted[k].ok) => pc \in {"sd_post", "exit"}
    /\ (pc \in {"exit", "aborted"} /\ chunks # <<>>) =>
          \A i \in 1..Len(chunks) : Attempts(i) = 1

DetailFields(rec) ==
    <<rec.last_stock, rec.last_price, rec.last_le_count, rec.last_funko_exclusive>>

\* C14: when the product page of a candidate cannot be read, the record's
\* last_stock, last_price, last_le_count and last_funko_exclusive keep the
\* values they had before the pass, the pass adds no InStockFlip, PriceChange,
\* UltraRareSignal or ExclusivityDetected alert, and the loop goes on with the
\* next candidate or target; when a listing page cannot be loaded, the state
\* (target records and item records) and the alert lists stay as they were and
\* the loop goes on with the next target.
C14_SoftFailures ==
    [][/\ ProcessFail =>
            LET id == stable_item_id(Head(queue).url)
            IN  /\ DetailFields(state'.items[id]) = DetailFields(PrevOf(state.items, id))
                /\ alerts_stock' = alerts_stock
                /\ alerts_price' = alerts_price
                /\ alerts_ultra' = alerts_ultra
                /\ alerts_new' = alerts_new \o lastEv'.nl
                /\ \A a \in {lastEv'.nl[i] : i \in 1..Len(lastEv'.nl)} : a.kind = "NewListing"
                /\ queue' = Tail(queue)
                /\ pc' \in {"items", "target", "finish"}
                /\ pc' = "items" <=> queue' # <<>>
       /\ LoadFail =>
            /\ state' = state
            /\ disk' = disk
            /\ outgoing' = outgoing
            /\ pc' = IF tIdx < Len(TARGETS) THEN "target" ELSE "finish"
            /\ pc' = "target" => tIdx' = tIdx + 1]_vars

C14_Witness ==
    /\ lastEv.kind = "fail"
    /\ lastEv.known
    /\ lastEv.prev.last_stock = "in_stock"
    /\ lastEv.prev.last_price # Nil
    /\ lastEv.prev.last_le_count # Nil
    /\ DetailFields(state.items[lastEv.id]) = DetailFields(lastEv.prev)
    /\ pc = "target"

\* C15: every start of main() gets a state from load_state and goes on to the
\* first target: the document of the file when it holds one, the empty
\* default when the file is absent, and also the empty default when the file
\* is not a whole JSON document.
C15_LoadNeverFails ==
    [][(pc = "idle" /\ run' = run + 1) =>
          /\ pc' = "target"
          /\ state' = (IF file = "json" THEN disk ELSE EmptyState)]_vars

\* C16: state.json is never left empty or cut short, wherever the process
\* stops: the file is absent (never written) or holds a whole document, the
\* one committed before or the new one.
C16_AtomicWrite == file \in {"absent", "json"}

\* C17: a product page read that yields no parseable price leaves the
\* record's last_price as it was, and a read that yields one stores it: the
\* record's last_price is the price of the last read that had one.
C17_LastConfirmedPriceKept ==
    EvOk =>
        state.items[lastEv.id].last_price =
            (IF EvNewPrice = Nil THEN lastEv.prev.last_price ELSE EvNewPrice)

\* C18: the record created by the first observation of an identity has
\* first_seen = last_seen, whatever values the clock returns during the run.
C18_FirstSeenIsLastSeen ==
    \A id \in DOMAIN state.items :
        (Ev /\ ~lastEv.known /\ lastEv.id = id) =>
            state.items[id].first_seen = state.items[id].last_seen

\* The cleanup that ended the run: the records before it, kept and dropped.
EvBefore == lastEv.before.items
EvKept == DOMAIN state.items
EvDropped == DOMAIN EvBefore \ EvKept

AfterCleanup ==
    (pc = "ev_done") =>
        /\ disk = state
        /\ EvKept \subseteq DOMAIN EvBefore
        /\ \A k \in EvKept : state.items[k] = EvBefore[k]
        /\ EvDropped # {} => Cardinality(DOMAIN EvBefore) > Capacity
        /\ Cardinality(EvKept) =
              (IF Cardinality(DOMAIN EvBefore) > Capacity THEN Capacity
               ELSE Cardinality(DOMAIN EvBefore))
        /\ \A d \in EvDropped : \A k \in EvKept :
              EvBefore[d].last_seen <= EvBefore[k].last_seen
        /\ \A d \in EvDropped \cap lastEv.observed :
              \A k \in EvKept \ lastEv.observed :
                 ~(EvBefore[k].last_seen < EvBefore[d].last_seen)

\* C19: the saved state never holds more than the capacity of records; a
\* record leaves the state only in the cleanup at the end of a run and only
\* when there are more records than the capacity, the cleanup then keeping
\* exactly the capacity and leaving the kept records as they were; no dropped
\* record has a last_seen above a kept record's; and no identity observed in
\* the run is dropped while an identity not observed in it, with an older
\* last_seen, is kept.
C19_BoundedRetention ==
    /\ Cardinality(DOMAIN disk.items) <= Capacity
    /\ AfterCleanup
    /\ [][/\ Cardinality(DOMAIN disk'.items) <= Capacity
          /\ AfterCleanup'
          /\ pc' = "ev_items" => DOMAIN load_state(file, disk).items \subseteq DOMAIN state'.items
          /\ pc = "ev_items" /\ pc' = "ev_items" => DOMAIN state.items \subseteq DOMAIN state'.items
          /\ pc # "ev_items" => disk' = disk]_vars

C19_Witness ==
    /\ pc = "ev_done"
    /\ run = 2
    /\ lastEv.observed # {}
    /\ EvKept \ lastEv.observed # {}
    /\ \E d \in EvDropped : \E k \in EvKept :
          EvBefore[d].last_seen = EvBefore[k].last_seen
    /\ \E d \in EvDropped : \E k \in EvKept :
          EvBefore[d].last_seen < EvBefore[k].last_seen

\* C20: whenever send_discord is at work or has posted, state.json holds the
\* whole state of this run, so every alert handed over is for a change the
\* saved record already holds; and a product page read that shows what the
\* last read of the identity showed, in this or an earlier run, emits no
\* alert, whether or not the alerts of that read were delivered.
C20_PersistBeforeDeliver ==
    /\ (pc \in {"sd_start", "sd_post"} \/ posted # <<>>) =>
          /\ file = "json"
          /\ disk = state
          /\ sent = outgoing
    /\ (EvOk /\ lastEv.before.vals = Some(lastEv.vals)) =>
          /\ EvNoDetailAlert
          /\ lastEv.nl = <<>>

C20_Witness ==
    /\ raised
    /\ run = 2
    /\ EvOk
    /\ lastEv.src = TARGETS[1].name
    /\ lastEv.before.vals = Some(lastEv.vals)
    /\ lastEv.before.exclStreak = 1
    /\ lastEv.vals.funko_excl = Some(TRUE)
    /\ lastEv.vals.le_count # Nil
    /\ EvNoDetailAlert

\* C21: a pass over an identity that an earlier pass of the same run has
\* processed finds the record and emits no NewListing; when the earlier pass
\* read the product page, the record it finds holds what that read stored,
\* and no InStockFlip, ExclusivityDetected or UltraRareSignal is emitted when
\* the page shows the same stock, flag or count as in that read.
C21_SameRunRepeat ==
    Ev =>
      /\ lastEv.id \in lastEv.done => (lastEv.known /\ lastEv.nl = <<>>)
      /\ (EvOk /\ lastEv.id \in lastEv.read) =>
            LET earlier == lastEv.before.vals[1]
            IN  /\ lastEv.prev.last_stock = earlier.stock
                /\ lastEv.prev.last_price = price_to_float(earlier.price_text)
                /\ lastEv.prev.last_le_count = earlier.le_count
                /\ lastEv.prev.last_funko_exclusive = earlier.funko_excl
                /\ lastEv.vals.stock = earlier.stock => lastEv.da.stock = <<>>
                /\ lastEv.vals.funko_excl = earlier.funko_excl => lastEv.da.new = <<>>
                /\ lastEv.vals.le_count = earlier.le_count => lastEv.da.ultra = <<>>

C21_Witness ==
    /\ EvOk
    /\ run = 2
    /\ lastEv.id \in lastEv.read
    /\ lastEv.id \in DOMAIN disk.items
    /\ disk.items[lastEv.id].last_stock # "in_stock"
    /\ disk.items[lastEv.id].last_le_count = Nil
    /\ lastEv.vals = lastEv.before.vals[1]
    /\ lastEv.vals.stock = "in_stock"
    /\ lastEv.vals.le_count # Nil
    /\ alerts_stock # <<>>
    /\ alerts_ultra # <<>>
    /\ EvNoDetailAlert
====
